---- MODULE Spec2Model ----
(***************************************************************************)
(* Traffic-Rewards: the traffic-stuck detection and point-award state      *)
(* machine.  The model follows the background location task                *)
(* (TaskManager.defineTask(LOCATION_TRACKING_TASK, ...)) of the throttled  *)
(* revision of the traffic screen (src/unnamed/part_004, identical to      *)
(* src/unnamed/part_005 lines 140-351 and, apart from the throttle gates,  *)
(* to src/app/(tabs)/traffic.js), the mini-game award that writes the same *)
(* user document (src/app/(tabs)/(games)/Snakes.js), the foreground award  *)
(* interval of the accelerometer revision (src/unnamed/part_005 lines      *)
(* 756-1018) and the focus-driven start-up of the background task.         *)
(*                                                                         *)
(* Time is in milliseconds.  A position is a number of metres along one    *)
(* meridian, on which the haversine distance of two points is the absolute *)
(* difference of their offsets.                                            *)
(***************************************************************************)
EXTENDS Integers, Sequences, FiniteSets, TLC

(***************************************************************************)
(* Program constants (src/unnamed/part_004 lines 34-53).                   *)
(***************************************************************************)
STUCK_DISTANCE_THRESHOLD_METERS == 30
STUCK_TIME_THRESHOLD_MS == 1000 * 60 * 1
COOLDOWN_INTERVAL_MS == 1000 * 60 * 5
\* HEAVY_TRAFFIC_RATIO = 1.5 and MODERATE_TRAFFIC_RATIO = 1.10, times 100
HEAVY_TRAFFIC_RATIO_X100 == 150
MODERATE_TRAFFIC_RATIO_X100 == 110
ON_ROAD_THRESHOLD_METERS == 10
MIN_API_CALL_INTERVAL_MS_TRAFFIC == 1000 * 60 * 1
MIN_API_CALL_INTERVAL_MS_ROADS == 1000 * 60 * 3

(***************************************************************************)
(* Bounds of the model.                                                    *)
(***************************************************************************)
\* the clock advances in steps of TickMs
TickMs == 60000
\* the clock stops advancing MaxTicks steps after StartTime
MaxTicks == 3
\* number of mini-game awards written to the account
MaxGameAwards == 1

\* Date.now() of the first state: late enough for a never-awarded user
\* (lastPointTime 0) to be out of cooldown, as with a real epoch clock.
StartTime == COOLDOWN_INTERVAL_MS
MaxTime == StartTime + MaxTicks * TickMs

\* Two phones signed in as the same user; each has its own AsyncStorage.
Devices == {"phoneA", "phoneB"}
\* Sample positions: the origin and a point 30 m away.
Positions == {0, 30}
NoData == -1

\* An AsyncStorage key that was never written (getItem returns null).
Absent == -1
AbsentStr == "null"
\* An AsyncStorage item that is a non-empty string but neither a number nor
\* JSON, and what parseInt makes of it.
CorruptItem == -2
NaN == -3

(***************************************************************************)
(* Pure helpers of the task.                                               *)
(***************************************************************************)
Abs(x) == IF x < 0 THEN -x ELSE x

\* getDistanceFromLatLonInMeters, on one meridian
getDistanceFromLatLonInMeters(p, q) == Abs(q - p)

\* parseInt(item || '0') and  item ? parseInt(item) : 0
ParseIntOrZero(item) ==
    IF item = Absent THEN 0 ELSE IF item = CorruptItem THEN NaN ELSE item

\* now.toString()
NumToString(n) == n

\* JSON.stringify(bool) / JSON.parse(item || 'false')
JsonStringifyBool(b) == IF b THEN "true" ELSE "false"
JsonParseBoolOrFalse(item) == IF item = AbsentStr THEN FALSE ELSE item = "true"

\* new Date(ms).toLocaleString(): the time to the second
ToLocaleString(ms) == ms \div 1000

NoLocation == [set |-> FALSE, pos |-> 0, timestamp |-> 0]
\* a 'lastKnownLocation' item on which JSON.parse throws
CorruptLocation == [set |-> TRUE, pos |-> 0, timestamp |-> CorruptItem]
LocationAt(p, t) == [set |-> TRUE, pos |-> p, timestamp |-> t]
NoSnap == [set |-> FALSE, pos |-> 0]
SnapAt(p) == [set |-> TRUE, pos |-> p]

(***************************************************************************)
(* Stuck detector (part_004 lines 170-213).                                *)
(***************************************************************************)
\* Variant: a sample near the reference is stuck at once.
IsStuckWithoutWaiting(ref, pos, now) ==
    /\ ref.set
    /\ getDistanceFromLatLonInMeters(ref.pos, pos) < STUCK_DISTANCE_THRESHOLD_METERS

\* Variant: the elapsed time must exceed the threshold.
IsStuckOnlyAfterThreshold(ref, pos, now) ==
    /\ ref.set
    /\ getDistanceFromLatLonInMeters(ref.pos, pos) < STUCK_DISTANCE_THRESHOLD_METERS
    /\ now - ref.timestamp > STUCK_TIME_THRESHOLD_MS

\* distance < STUCK_DISTANCE_THRESHOLD_METERS && timeElapsed >= STUCK_TIME_THRESHOLD_MS
IsStuck(ref, pos, now) ==
    /\ ref.set
    /\ getDistanceFromLatLonInMeters(ref.pos, pos) < STUCK_DISTANCE_THRESHOLD_METERS
    /\ now - ref.timestamp >= STUCK_TIME_THRESHOLD_MS

\* Variant: the distance must exceed the threshold.
MovedSignificantlyBeyond(ref, pos) ==
    /\ ref.set
    /\ getDistanceFromLatLonInMeters(ref.pos, pos) > STUCK_DISTANCE_THRESHOLD_METERS

\* else if (distance >= STUCK_DISTANCE_THRESHOLD_METERS)
MovedSignificantly(ref, pos) ==
    /\ ref.set
    /\ getDistanceFromLatLonInMeters(ref.pos, pos) >= STUCK_DISTANCE_THRESHOLD_METERS

\* Variant: a cached STUCK verdict is taken over.
StuckVerdictTrustingCache(st, pos, now) ==
    IsStuck(st.lastKnownLocation, pos, now) \/ st.backgroundIsStuck = "true"

\* isStuckInBackground of an invocation: recomputed from 'lastKnownLocation';
\* 'backgroundIsStuck' is not read.
StuckVerdict(st, pos, now) == IsStuck(st.lastKnownLocation, pos, now)

\* Variant: the reset moves the reference but keeps its old timestamp.
ResetReferenceKeepingTime(ref, pos, now) == LocationAt(pos, ref.timestamp)

\* the value written to 'lastKnownLocation' on movement
ResetReference(ref, pos, now) == LocationAt(pos, now)

\* Variant: a stationary sample that is not yet stuck restarts the timer.
NextReferenceRestartingTimer(ref, pos, now) ==
    IF ~ref.set THEN LocationAt(pos, now)
    ELSE IF IsStuck(ref, pos, now) THEN ref
    ELSE LocationAt(pos, now)

\* Variant: a first fix does not initialise the reference.
NextReferenceWithoutInitialising(ref, pos, now) ==
    IF ~ref.set THEN ref
    ELSE IF IsStuck(ref, pos, now) THEN ref
    ELSE IF MovedSignificantly(ref, pos) THEN ResetReference(ref, pos, now)
    ELSE ref

\* 'lastKnownLocation' after the stuck-detection block
NextReference(ref, pos, now) ==
    IF ~ref.set THEN LocationAt(pos, now)
    ELSE IF IsStuck(ref, pos, now) THEN ref
    ELSE IF MovedSignificantly(ref, pos) THEN ResetReference(ref, pos, now)
    ELSE ref

(***************************************************************************)
(* Traffic and road oracles (part_004 lines 215-303).                      *)
(***************************************************************************)
\* Answers of the Distance Matrix call: a thrown fetch/parse error, a body
\* without rows, or (duration_in_traffic, duration).
TrafficThrow == [kind |-> "throw", durationInTraffic |-> 0, normalDuration |-> 0]
TrafficNoRows == [kind |-> "norows", durationInTraffic |-> 0, normalDuration |-> 0]
TrafficOk(dit, nd) == [kind |-> "ok", durationInTraffic |-> dit, normalDuration |-> nd]
TrafficResponses ==
    {TrafficThrow, TrafficNoRows,
     TrafficOk(16, 10), TrafficOk(15, 10), TrafficOk(11, 10), TrafficOk(5, 0)}

\* ratio > limit, with ratio = (normalDuration > 0) ? dit / normalDuration : 1
RatioExceeds(dit, nd, limitX100) ==
    IF nd > 0 THEN dit * 100 > limitX100 * nd ELSE 100 > limitX100

ClassifyTraffic(r) ==
    IF r.kind = "norows" THEN "Traffic data unavailable"
    ELSE IF RatioExceeds(r.durationInTraffic, r.normalDuration, HEAVY_TRAFFIC_RATIO_X100)
         THEN "Heavy Traffic (Red Zone)"
    ELSE IF RatioExceeds(r.durationInTraffic, r.normalDuration, MODERATE_TRAFFIC_RATIO_X100)
         THEN "Moderate Traffic (Yellow Zone)"
    ELSE "Free Flow (Green Zone)"

\* (a comparison with NaN is false)
canCallTrafficApi(now, lastTrafficApiCallTime) ==
    /\ lastTrafficApiCallTime # NaN
    /\ now - lastTrafficApiCallTime >= MIN_API_CALL_INTERVAL_MS_TRAFFIC

canCallRoadsApi(now, lastRoadsApiCallTime) ==
    /\ lastRoadsApiCallTime # NaN
    /\ now - lastRoadsApiCallTime >= MIN_API_CALL_INTERVAL_MS_ROADS

\* AsyncStorage.getItem('backgroundTrafficStatus') || 'Unknown'
CachedTrafficStatus(item) == IF item = AbsentStr THEN "Unknown" ELSE item

\* Variant: the call time is stored whether or not the call completed.
TrafficCallTimeAlwaysStored(st, now, r) == NumToString(now)

\* Variant: the call time is never stored.
TrafficCallTimeNeverStored(st, now, r) == st.lastTrafficApiCallTime

\* 'lastTrafficApiCallTime' after the traffic block: written only when the
\* call completed (the setItem is inside the try, after the parse).
TrafficCallTimeAfter(st, now, r) ==
    IF r.kind = "throw" THEN st.lastTrafficApiCallTime ELSE NumToString(now)

\* The traffic block: [status, called, completed, lastTrafficApiCallTime]
RefreshTraffic(st, now, r) ==
    IF canCallTrafficApi(now, ParseIntOrZero(st.lastTrafficApiCallTime))
    THEN [status |-> IF r.kind = "throw" THEN "Error" ELSE ClassifyTraffic(r),
          called |-> TRUE,
          completed |-> r.kind # "throw",
          lastTrafficApiCallTime |-> TrafficCallTimeAfter(st, now, r)]
    ELSE [status |-> CachedTrafficStatus(st.backgroundTrafficStatus),
          called |-> FALSE,
          completed |-> FALSE,
          lastTrafficApiCallTime |-> st.lastTrafficApiCallTime]

\* Answers of the snapToRoads call: a thrown error, no snapped point, or a
\* snapped point at the given distance from the raw position.
RoadThrow == [kind |-> "throw", offset |-> 0]
RoadNoSnap == [kind |-> "nosnap", offset |-> 0]
RoadSnap(off) == [kind |-> "snap", offset |-> off]
RoadResponses == {RoadThrow, RoadNoSnap, RoadSnap(0), RoadSnap(10)}

\* isOnRoad = distanceToRoad < ON_ROAD_THRESHOLD_METERS
OnRoadOf(pos, snappedPos) ==
    getDistanceFromLatLonInMeters(pos, snappedPos) < ON_ROAD_THRESHOLD_METERS

\* The roads block: [isOnRoad, snappedLocation, result, lastRoadsApiCallTime];
\* result tells where isOnRoad came from: the cache or the oracle's answer.
RefreshOnRoad(st, now, pos, r) ==
    IF canCallRoadsApi(now, ParseIntOrZero(st.lastRoadsApiCallTime))
    THEN [isOnRoad |-> r.kind = "snap" /\ OnRoadOf(pos, pos + r.offset),
          snappedLocation |-> IF r.kind = "snap" THEN SnapAt(pos + r.offset) ELSE NoSnap,
          result |-> r.kind,
          lastRoadsApiCallTime |->
              IF r.kind = "throw" THEN st.lastRoadsApiCallTime ELSE NumToString(now)]
    ELSE [isOnRoad |-> JsonParseBoolOrFalse(st.backgroundIsOnRoad),
          snappedLocation |-> st.backgroundSnappedLocation,
          result |-> "cached",
          lastRoadsApiCallTime |-> st.lastRoadsApiCallTime]

(***************************************************************************)
(* Point award policy (part_004 lines 306-351).                            *)
(***************************************************************************)
\* Variant: the cooldown must be exceeded.
cooldownReadyStrictlyLater(now, lastPointTime) ==
    /\ lastPointTime # NaN
    /\ now - lastPointTime > COOLDOWN_INTERVAL_MS

\* Variant: the cooldown is compared with the stuck-time threshold.
cooldownReadyWrongInterval(now, lastPointTime) ==
    now - lastPointTime >= STUCK_TIME_THRESHOLD_MS

cooldownReady(now, lastPointTime) ==
    /\ lastPointTime # NaN
    /\ now - lastPointTime >= COOLDOWN_INTERVAL_MS

inRedZone(trafficStatus) == trafficStatus = "Heavy Traffic (Red Zone)"
inYellowZone(trafficStatus) == trafficStatus = "Moderate Traffic (Yellow Zone)"

\* Variant: the on-road flag is left out of the condition.
EligibleIgnoringRoad(isStuck, ready, isOnRoad) == isStuck /\ ready

\* if (isStuckInBackground && cooldownReady && isOnRoad)
Eligible(isStuck, ready, isOnRoad) == isStuck /\ ready /\ isOnRoad

\* Variant: free-flowing traffic earns the moderate amount.
pointsToAddForFreeFlow(trafficStatus) ==
    IF inRedZone(trafficStatus) THEN 10
    ELSE IF inYellowZone(trafficStatus) THEN 5
    ELSE IF trafficStatus = "Free Flow (Green Zone)" THEN 5
    ELSE 0

pointsToAdd(trafficStatus) ==
    IF inRedZone(trafficStatus) THEN 10
    ELSE IF inYellowZone(trafficStatus) THEN 5
    ELSE 0

reasonOf(trafficStatus) ==
    IF inRedZone(trafficStatus) THEN "Stuck in heavy traffic on road (Background)"
    ELSE IF inYellowZone(trafficStatus) THEN "Stuck in moderate traffic on road (Background)"
    ELSE ""

\* docSnap.exists() ? (docSnap.data().points ?? 0) : 0
LatestPoints(acct) ==
    IF acct.exists /\ acct.points # Absent THEN acct.points ELSE 0

\* const newPoints = latestPoints + pointsToAdd
newPoints(latestPoints, toAdd) == latestPoints + toAdd

(***************************************************************************)
(* The remote user document (Firestore).                                   *)
(***************************************************************************)
\* arrayUnion(e): appended unless an equal element is already there
ArrayUnion(hist, e) ==
    IF \E i \in 1..Len(hist) : hist[i] = e THEN hist ELSE Append(hist, e)

\* increment(amount) on a field that may be missing
Increment(fieldValue, amount) ==
    (IF fieldValue = Absent THEN 0 ELSE fieldValue) + amount

\* the entry of a traffic grant: { time: new Date().toLocaleString(), reason }
TrafficEntry(writeTime, reason) ==
    [time |-> ToLocaleString(writeTime), reason |-> reason, amount |-> Absent]

\* the entry of a mini-game award: { amount, reason, timestamp: ISO string }
GameEntry(writeTime, amount) ==
    [time |-> writeTime, reason |-> "game", amount |-> amount]

\* updateDoc(userDocRef, { points: newPoints, pointHistory: arrayUnion(..),
\*                         lastPointTime: now })
GrantWrite(acct, latestPoints, toAdd, reason, now, writeTime) ==
    [acct EXCEPT !.points = newPoints(latestPoints, toAdd),
                 !.pointHistory = ArrayUnion(@, TrafficEntry(writeTime, reason)),
                 !.lastPointTime = now]

\* A document as verify.js creates it (no points field), and no document.
RegisteredAccount ==
    [exists |-> TRUE, points |-> Absent, pointHistory |-> <<>>, lastPointTime |-> Absent]
MissingAccount ==
    [exists |-> FALSE, points |-> Absent, pointHistory |-> <<>>, lastPointTime |-> Absent]

\* ensureUserPointsField: the document after the call
ensureUserPointsField(acct) ==
    IF acct.exists
    THEN IF acct.points = Absent THEN [acct EXCEPT !.points = 0] ELSE acct
    ELSE [exists |-> TRUE, points |-> 0, pointHistory |-> <<>>, lastPointTime |-> Absent]

(***************************************************************************)
(* State.                                                                  *)
(***************************************************************************)
VARIABLES
    clock,        \* Date.now()
    storage,      \* AsyncStorage of each device
    account,      \* the user's Firestore document users/<uid>
    inv,          \* the task invocation of each device: position and locals
    grantLog,     \* history: the grants whose updateDoc succeeded
    credited,     \* history: sum of the amounts of all successful awards
    gameAwards,   \* history: number of mini-game awards made
    prevRefresh,  \* history: the traffic refresh of the previous invocation
    lastResetAt,  \* history: when movement last reset the reference
    pendingRetry, \* history: "failed" after a grant write failed, "retrying"
                  \* while the next attempt is under way, "no" otherwise
    fg,           \* the accelerometer TrafficPage: its state, refs and the
                  \* position of its award callback
    coord,        \* the focus-driven start-up of the background task and the
                  \* task registry of the OS
    provider      \* PointsProvider of the running app process, its pending
                  \* AsyncStorage writes and the foreground poll

taskVars == <<clock, storage, account, inv, grantLog, credited, gameAwards,
              prevRefresh, lastResetAt, pendingRetry>>

EmptyStorage ==
    [lastKnownLocation |-> NoLocation,
     lastTrafficApiCallTime |-> Absent,
     lastRoadsApiCallTime |-> Absent,
     backgroundTrafficStatus |-> AbsentStr,
     backgroundIsOnRoad |-> AbsentStr,
     backgroundIsStuck |-> AbsentStr,
     backgroundSnappedLocation |-> NoSnap,
     lastPointTime |-> Absent]

\* No invocation has run yet.  After an invocation returns, inv keeps its
\* time, its verdicts and its outcome until the next one starts.
IdleInv ==
    [pc |-> "idle", outcome |-> "init", now |-> 0, pos |-> 0,
     isStuckInBackground |-> FALSE, trafficStatus |-> "Unknown", isOnRoad |-> FALSE,
     calledTraffic |-> FALSE, completedTraffic |-> FALSE,
     roadsResult |-> "none",
     lastPointTime |-> 0, cooldownReady |-> FALSE, pointsToAdd |-> 0,
     latestPoints |-> 0, fixTime |-> 0, firstRun |-> FALSE, guarded |-> FALSE]

NoRefresh ==
    [valid |-> FALSE, now |-> 0, called |-> FALSE, completed |-> FALSE,
     status |-> "Unknown"]

TaskInit ==
    /\ clock = StartTime
    /\ storage = [d \in Devices |-> EmptyStorage]
    /\ account \in {RegisteredAccount, MissingAccount}
    /\ inv = [d \in Devices |-> IdleInv]
    /\ grantLog = {}
    /\ credited = 0
    /\ gameAwards = 0
    /\ prevRefresh = [d \in Devices |-> NoRefresh]
    /\ lastResetAt = [d \in Devices |-> Absent]
    /\ pendingRetry = [d \in Devices |-> "no"]

(***************************************************************************)
(* The background task, one action per stretch between the awaits that     *)
(* another writer can fall into.  The OS delivers the next fix to a device *)
(* when the previous invocation has returned.                              *)
(***************************************************************************)
\* Variant: the handler goes on without an authenticated user.
ReturnsAtGuardsIgnoringUser(error, data, user) == error \/ data = NoData

\* if (error) return; if (data) { ...; if (!user) return; ... } else { log }
ReturnsAtGuards(error, data, user) == error \/ data = NoData \/ ~user

\* Age of the delivered fix, locations[0].timestamp, at the time the handler
\* runs: fresh, or queued by the OS for one tick.  The handler reads only
\* locations[0].coords (part_004 line 155).
FixAges == {0, TickMs}

\* Entry guards, ensureUserPointsField and the stuck detection
\* (part_004 lines 144-213).
TaskStart(d, positions) ==
    /\ UNCHANGED <<fg, coord, provider>>
    /\ inv[d].pc = "idle"
    /\ \E error \in BOOLEAN, data \in positions \cup {NoData}, user \in BOOLEAN,
          age \in FixAges :
        IF ReturnsAtGuards(error, data, user)
        THEN \* inv notes that the last delivery had an error, no data or no user
             /\ inv' = [inv EXCEPT ![d].guarded = TRUE]
             /\ UNCHANGED <<clock, storage, account, grantLog, credited, gameAwards,
                            prevRefresh, lastResetAt, pendingRetry>>
        ELSE IF storage[d].lastKnownLocation = CorruptLocation
        THEN \* JSON.parse (line 172) throws outside any try: the handler rejects
             /\ account' = ensureUserPointsField(account)
             /\ inv' = [inv EXCEPT ![d] =
                    [IdleInv EXCEPT !.outcome = "threw", !.now = clock]]
             /\ UNCHANGED <<clock, storage, grantLog, credited, gameAwards,
                            prevRefresh, lastResetAt, pendingRetry>>
        ELSE LET now == clock
                 ref == storage[d].lastKnownLocation
                 stuck == StuckVerdict(storage[d], data, now)
             IN /\ account' = ensureUserPointsField(account)
                /\ storage' = [storage EXCEPT
                       ![d].lastKnownLocation = NextReference(ref, data, now)]
                /\ inv' = [inv EXCEPT ![d] =
                       [IdleInv EXCEPT !.pc = "traffic", !.outcome = "running",
                                       !.now = now, !.pos = data,
                                       !.fixTime = now - age,
                                       !.guarded = (error \/ data = NoData \/ ~user),
                                       !.firstRun = ~ref.set,
                                       !.isStuckInBackground = stuck]]
                /\ prevRefresh' = [prevRefresh EXCEPT ![d] =
                       IF inv[d].outcome = "init" THEN NoRefresh
                       ELSE [valid |-> TRUE, now |-> inv[d].now,
                             called |-> inv[d].calledTraffic,
                             completed |-> inv[d].completedTraffic,
                             status |-> inv[d].trafficStatus]]
                /\ lastResetAt' = [lastResetAt EXCEPT ![d] =
                       IF ~stuck /\ MovedSignificantly(ref, data) THEN now ELSE @]
                /\ UNCHANGED <<clock, grantLog, credited, gameAwards, pendingRetry>>

\* The throttled traffic-oracle call (part_004 lines 216-261).
TaskTraffic(d, trafficAnswers) ==
    /\ UNCHANGED <<fg, coord, provider>>
    /\ inv[d].pc = "traffic"
    /\ \E tr \in trafficAnswers :
        LET t == RefreshTraffic(storage[d], inv[d].now, tr)
        IN /\ storage' = [storage EXCEPT
                  ![d].lastTrafficApiCallTime = t.lastTrafficApiCallTime]
           /\ inv' = [inv EXCEPT ![d].pc = "roads",
                                 ![d].fixTime = 0,
                                 ![d].trafficStatus = t.status,
                                 ![d].calledTraffic = t.called,
                                 ![d].completedTraffic = t.completed]
           /\ UNCHANGED <<clock, account, grantLog, credited, gameAwards,
                          prevRefresh, lastResetAt, pendingRetry>>

\* The throttled road-snap call, the cache writes and the award decision
\* (part_004 lines 263-329).
TaskRoads(d, roadAnswers) ==
    /\ UNCHANGED <<fg, coord, provider>>
    /\ inv[d].pc = "roads"
    /\ \E rr \in roadAnswers :
        LET st == storage[d]
            now == inv[d].now
            r == RefreshOnRoad(st, now, inv[d].pos, rr)
            lpt == ParseIntOrZero(st.lastPointTime)
            ready == cooldownReady(now, lpt)
            eligible == Eligible(inv[d].isStuckInBackground, ready, r.isOnRoad)
            toAdd == IF eligible THEN pointsToAdd(inv[d].trafficStatus) ELSE 0
        IN /\ storage' = [storage EXCEPT ![d] =
                  [st EXCEPT !.lastRoadsApiCallTime = r.lastRoadsApiCallTime,
                             !.backgroundTrafficStatus = inv[d].trafficStatus,
                             !.backgroundIsOnRoad = JsonStringifyBool(r.isOnRoad),
                             !.backgroundIsStuck =
                                 JsonStringifyBool(inv[d].isStuckInBackground),
                             !.backgroundSnappedLocation = r.snappedLocation]]
           /\ inv' = [inv EXCEPT ![d] =
                  [@ EXCEPT !.pc = IF toAdd > 0 THEN "getDoc" ELSE "idle",
                            !.outcome = IF toAdd > 0 THEN "running" ELSE "declined",
                            !.pos = IF toAdd > 0 THEN @ ELSE 0,
                            !.isOnRoad = r.isOnRoad,
                            !.roadsResult = IF toAdd > 0 THEN r.result ELSE "none",
                            !.lastPointTime = lpt,
                            !.cooldownReady = ready,
                            !.pointsToAdd = toAdd]]
           /\ prevRefresh' = [prevRefresh EXCEPT ![d] = NoRefresh]
           /\ pendingRetry' = [pendingRetry EXCEPT ![d] =
                  IF toAdd > 0 /\ @ = "failed" THEN "retrying" ELSE @]
           /\ UNCHANGED <<clock, account, grantLog, credited, gameAwards, lastResetAt>>

\* const docSnap = await getDoc(userDocRef)  (part_004 lines 331-335)
\* ok = FALSE: getDoc threw, the catch block logs and the handler returns.
TaskGetDoc(d, outcomes) ==
    /\ UNCHANGED <<fg, coord, provider>>
    /\ inv[d].pc = "getDoc"
    /\ \E ok \in outcomes :
        IF ok
        THEN /\ inv' = [inv EXCEPT ![d].pc = "updateDoc",
                                   ![d].latestPoints = LatestPoints(account)]
             /\ UNCHANGED pendingRetry
        ELSE /\ inv' = [inv EXCEPT ![d].pc = "idle", ![d].outcome = "failed",
                                   ![d].pos = 0, ![d].roadsResult = "none"]
             /\ pendingRetry' = [pendingRetry EXCEPT ![d] = "failed"]
    /\ UNCHANGED <<clock, storage, account, grantLog, credited, gameAwards,
                   prevRefresh, lastResetAt>>

\* Variant: the anchor is stamped before the remote write is confirmed.
AnchorStampedBeforeWrite(st, now) == NumToString(now)

\* 'lastPointTime' in AsyncStorage after updateDoc threw: the setItem that
\* follows it in the try block is skipped.
AnchorAfterFailedWrite(st, now) == st.lastPointTime

\* await updateDoc(...); await AsyncStorage.setItem('lastPointTime', ...)
\* inside try/catch (part_004 lines 337-345).  ok = FALSE: updateDoc threw.
TaskUpdateDoc(d, outcomes) ==
    /\ UNCHANGED <<fg, coord, provider>>
    /\ inv[d].pc = "updateDoc"
    /\ \E ok \in outcomes :
        IF ok
        THEN /\ account' = GrantWrite(account, inv[d].latestPoints, inv[d].pointsToAdd,
                                      reasonOf(inv[d].trafficStatus), inv[d].now, clock)
             /\ storage' = [storage EXCEPT ![d].lastPointTime = NumToString(inv[d].now)]
             /\ inv' = [inv EXCEPT ![d].pc = "idle", ![d].outcome = "granted",
                                   ![d].pos = 0, ![d].latestPoints = 0,
                                   ![d].roadsResult = "none"]
             /\ grantLog' = grantLog \cup
                    {[dev |-> d, now |-> inv[d].now, amount |-> inv[d].pointsToAdd]}
             /\ credited' = credited + inv[d].pointsToAdd
             /\ pendingRetry' = [pendingRetry EXCEPT ![d] = "no"]
             /\ UNCHANGED <<clock, gameAwards, prevRefresh, lastResetAt>>
        ELSE /\ storage' = [storage EXCEPT
                    ![d].lastPointTime = AnchorAfterFailedWrite(storage[d], inv[d].now)]
             /\ inv' = [inv EXCEPT ![d].pc = "idle", ![d].outcome = "failed",
                                   ![d].pos = 0, ![d].latestPoints = 0,
                                   ![d].roadsResult = "none"]
             /\ pendingRetry' = [pendingRetry EXCEPT ![d] = "failed"]
             /\ UNCHANGED <<clock, account, grantLog, credited, gameAwards,
                            prevRefresh, lastResetAt>>

(***************************************************************************)
(* Another writer of the same document: a mini-game award                  *)
(* (Snakes.js updateFirebasePoints, lines 140-154).                        *)
(***************************************************************************)
GameAmounts == {7}

updateFirebasePoints(amount) ==
    /\ UNCHANGED <<fg, coord, provider>>
    /\ gameAwards < MaxGameAwards
    /\ account' = [ensureUserPointsField(account) EXCEPT
           !.points = Increment(@, amount),
           !.pointHistory = ArrayUnion(@, GameEntry(clock, amount))]
    /\ credited' = credited + amount
    /\ gameAwards' = gameAwards + 1
    /\ UNCHANGED <<clock, storage, inv, grantLog, prevRefresh, lastResetAt, pendingRetry>>

\* Time passes, by one tick; an invocation returns within the tick it began in.
Tick ==
    /\ UNCHANGED <<fg, coord, provider>>
    /\ clock + TickMs <= MaxTime
    /\ \A d \in Devices : inv[d].pc = "idle"
    /\ clock' = clock + TickMs
    /\ UNCHANGED <<storage, account, inv, grantLog, credited, gameAwards,
                   prevRefresh, lastResetAt, pendingRetry>>

(***************************************************************************)
(* The accelerometer revision of TrafficPage (part_005 lines 756-1018):    *)
(* the award is made by a foreground interval callback that writes the     *)
(* points and then, in addToHistory, the history entry.                    *)
(***************************************************************************)
ONE_MINUTE == 1000 * 60
FG_HEAVY_RATIO_X100 == 150
FG_MODERATE_RATIO_X100 == 115
FG_ON_ROAD_METERS == 20

\* the variables the page does not touch
deviceVars == <<storage, inv, gameAwards, prevRefresh, lastResetAt, pendingRetry>>

FgTrafficResponses == {TrafficThrow, TrafficOk(16, 10), TrafficOk(15, 10), TrafficOk(5, 0)}

\* fetchTrafficStatus (part_005 lines 909-931); a body without rows throws
\* on data.rows[0] and is caught like a failed fetch.
FgClassifyTraffic(r) ==
    IF r.kind # "ok" THEN "Error fetching traffic"
    ELSE IF RatioExceeds(r.durationInTraffic, r.normalDuration, FG_HEAVY_RATIO_X100)
         THEN "Heavy Traffic (Red Zone)"
    ELSE IF RatioExceeds(r.durationInTraffic, r.normalDuration, FG_MODERATE_RATIO_X100)
         THEN "Moderate Traffic (Yellow Zone)"
    ELSE "Free Flow (Green Zone)"

\* checkIfOnRoad (part_005 lines 933-953)
FgOnRoad(r) == r.kind = "snap" /\ r.offset < FG_ON_ROAD_METERS

FgPointsToAdd(trafficStatus) ==
    IF inRedZone(trafficStatus) THEN 10
    ELSE IF inYellowZone(trafficStatus) THEN 5
    ELSE 0

FgReasonOf(trafficStatus) ==
    IF inRedZone(trafficStatus) THEN "Stuck in heavy traffic on road"
    ELSE IF inYellowZone(trafficStatus) THEN "Stuck in moderate traffic on road"
    ELSE ""

\* latestPoints = docSnap.exists() ? (data.points ?? points) : points
FgLatestPoints(acct, points) ==
    IF acct.exists /\ acct.points # Absent THEN acct.points ELSE points

\* usePoints() starts at 0 / 0; the page's own state as useState sets it.
FgInit ==
    [pc |-> "idle", loaded |-> FALSE, points |-> 0, lastPointTime |-> 0,
     isStuck |-> FALSE, trafficStatus |-> "Unknown", isOnRoad |-> FALSE,
     pointsAwardedThisStuck |-> FALSE, pointHistory |-> <<>>,
     storedHistory |-> <<>>, pointsToAdd |-> 0, reason |-> "", latestPoints |-> 0]

\* The mount effect (part_005 lines 851-869): load the document or create it.
FgLoad ==
    /\ UNCHANGED <<deviceVars, coord, provider>>
    /\ ~fg.loaded
    /\ IF account.exists
       THEN /\ fg' = [fg EXCEPT !.loaded = TRUE,
                        !.points = IF account.points # Absent /\ account.points # 0
                                   THEN account.points ELSE @,
                        !.pointHistory = account.pointHistory]
            /\ UNCHANGED account
       ELSE /\ account' = [exists |-> TRUE, points |-> 0, pointHistory |-> <<>>,
                           lastPointTime |-> Absent]
            /\ fg' = [fg EXCEPT !.loaded = TRUE, !.points = 0, !.pointHistory = <<>>]
    /\ UNCHANGED <<clock, grantLog, credited>>

\* The accelerometer listener (part_005 lines 813-840); still: the average
\* delta of the motion buffer is below STILL_THRESHOLD.
AccelerometerListener(still) ==
    /\ UNCHANGED <<deviceVars, coord, provider>>
    /\ fg' = IF still
             THEN IF ~fg.isStuck
                  THEN [fg EXCEPT !.isStuck = TRUE, !.pointsAwardedThisStuck = FALSE]
                  ELSE fg
             ELSE [fg EXCEPT !.isStuck = FALSE, !.pointsAwardedThisStuck = FALSE]
    /\ UNCHANGED <<clock, account, grantLog, credited>>

fetchTrafficStatus(r) ==
    /\ UNCHANGED <<deviceVars, coord, provider>>
    /\ fg' = [fg EXCEPT !.trafficStatus = FgClassifyTraffic(r)]
    /\ UNCHANGED <<clock, account, grantLog, credited>>

checkIfOnRoad(r) ==
    /\ UNCHANGED <<deviceVars, coord, provider>>
    /\ fg' = [fg EXCEPT !.isOnRoad = FgOnRoad(r)]
    /\ UNCHANGED <<clock, account, grantLog, credited>>

\* The award callback up to its first await (part_005 lines 969-990).
AwardInterval ==
    /\ UNCHANGED <<deviceVars, coord, provider>>
    /\ fg.pc = "idle"
    /\ LET ready == clock - fg.lastPointTime >= ONE_MINUTE
           toAdd == FgPointsToAdd(fg.trafficStatus)
       IN IF fg.isStuck /\ ready /\ ~fg.pointsAwardedThisStuck /\ fg.isOnRoad /\ toAdd > 0
          THEN fg' = [fg EXCEPT !.pc = "getDoc", !.pointsAwardedThisStuck = TRUE,
                                !.pointsToAdd = toAdd,
                                !.reason = FgReasonOf(fg.trafficStatus)]
          ELSE UNCHANGED fg
    /\ UNCHANGED <<clock, account, grantLog, credited>>

\* catch (error) { pointsAwardedThisStuck.current = false }  (lines 1009-1012)
FgCatch ==
    [fg EXCEPT !.pc = "idle", !.pointsAwardedThisStuck = FALSE,
               !.pointsToAdd = 0, !.reason = "", !.latestPoints = 0]

\* const docSnap = await getDoc(userDocRef)  (lines 991-999)
FgGetDoc(ok) ==
    /\ UNCHANGED <<deviceVars, coord, provider>>
    /\ fg.pc = "getDoc"
    /\ fg' = IF ok
             THEN [fg EXCEPT !.pc = "updateDoc",
                             !.latestPoints = FgLatestPoints(account, fg.points)]
             ELSE FgCatch
    /\ UNCHANGED <<clock, account, grantLog, credited>>

\* await updateDoc(userDocRef, { points: newPoints }); setPoints;
\* setLastPointTime; then addToHistory up to its setItem (lines 1000-1006,
\* 888-891).  updateDoc throws when the document does not exist.
FgUpdatePoints(ok) ==
    /\ UNCHANGED <<deviceVars, coord, provider>>
    /\ fg.pc = "updateDoc"
    /\ IF ok /\ account.exists
       THEN LET np == newPoints(fg.latestPoints, fg.pointsToAdd)
                entry == TrafficEntry(clock, fg.reason)
            IN /\ account' = [account EXCEPT !.points = np]
               /\ fg' = [fg EXCEPT !.pc = "setItem", !.points = np,
                                   !.lastPointTime = clock,
                                   !.pointHistory = <<entry>> \o @]
               /\ grantLog' = grantLog \cup
                      {[dev |-> "phoneA", now |-> clock, amount |-> fg.pointsToAdd]}
               /\ credited' = credited + fg.pointsToAdd
       ELSE /\ fg' = FgCatch
            /\ UNCHANGED <<account, grantLog, credited>>
    /\ UNCHANGED clock

\* await AsyncStorage.setItem('pointHistory', ...)  (line 891)
FgHistorySetItem(ok) ==
    /\ UNCHANGED <<deviceVars, coord, provider>>
    /\ fg.pc = "setItem"
    /\ fg' = IF ok
             THEN [fg EXCEPT !.pc = "arrayUnion", !.storedHistory = fg.pointHistory]
             ELSE FgCatch
    /\ UNCHANGED <<clock, account, grantLog, credited>>

\* await updateDoc(userDocRef, { pointHistory: arrayUnion(entry) }), then
\* the banner and the flag (lines 893-897, 1007-1008).
FgHistoryArrayUnion(ok) ==
    /\ UNCHANGED <<deviceVars, coord, provider>>
    /\ fg.pc = "arrayUnion"
    /\ IF ok /\ account.exists
       THEN account' = [account EXCEPT
                !.pointHistory = ArrayUnion(@, TrafficEntry(clock, fg.reason))]
       ELSE UNCHANGED account
    /\ fg' = FgCatch
    /\ UNCHANGED <<clock, grantLog, credited>>

\* Time passes while no award callback is in flight.
FgTick ==
    /\ UNCHANGED <<deviceVars, coord, provider>>
    /\ fg.pc = "idle"
    /\ clock + TickMs <= MaxTime
    /\ clock' = clock + TickMs
    /\ UNCHANGED <<fg, account, grantLog, credited>>

(***************************************************************************)
(* Start-up of the background task from the screen (part_004 lines         *)
(* 446-547, traffic.js lines 288-355) and the task registry it talks to.   *)
(***************************************************************************)
LOCATION_TRACKING_TASK == "trafficshare-location-task"
\* number of times the screen gains focus
MaxFocus == 2

\* Variant: every start-up registers under a name of its own.
TaskNamePerStartUp(i) ==
    IF i = 1 THEN LOCATION_TRACKING_TASK ELSE "trafficshare-location-task-again"

\* The task name start-up i passes to isTaskRegisteredAsync,
\* stopLocationUpdatesAsync and startLocationUpdatesAsync.
TaskNameOf(i) == LOCATION_TRACKING_TASK

\* useFocusEffect of part_004 stops and restarts a registered task;
\* useEffect of traffic.js starts it only when it is not registered.
Revisions == {"useFocusEffect", "useEffect"}

\* denied: a permission request of the start-up was refused; watching: the
\* start-up created a foreground watch; started: its startLocationUpdatesAsync
\* succeeded.
NotBegun ==
    [pc |-> "notBegun", sawRegistered |-> FALSE, started |-> FALSE,
     denied |-> FALSE, watching |-> FALSE]

\* Variant: the start-up goes on whatever the permission status.
AfterPermissionIgnoringStatus(granted, next) == next

\* if (status !== 'granted') { ...; return; }
AfterPermission(granted, next) == IF granted THEN next ELSE "done"

CoordInit ==
    [revision |-> "useFocusEffect", focused |-> FALSE, begun |-> 0,
     startUp |-> [i \in 1..MaxFocus |-> NotBegun],
     registered |-> {}, watchers |-> 0, inflight |-> {}]

\* the screen gains focus (or mounts): requestPermissionsAndStartTracking()
FocusGained ==
    /\ UNCHANGED <<taskVars, fg, provider>>
    /\ ~coord.focused
    /\ coord.begun < MaxFocus
    /\ \E rev \in (IF coord.begun = 0 THEN Revisions ELSE {coord.revision}) :
        coord' = [coord EXCEPT !.revision = rev, !.focused = TRUE,
                               !.begun = @ + 1,
                               !.startUp[coord.begun + 1].pc = "foreground"]

\* the screen loses focus: the effect callback returned nothing (the cleanup
\* is the result of the async function), so nothing is stopped or removed
FocusLost ==
    /\ UNCHANGED <<taskVars, fg, provider>>
    /\ coord.focused
    /\ coord' = [coord EXCEPT !.focused = FALSE]

\* await Location.requestForegroundPermissionsAsync()
RequestForeground(i, granted) ==
    /\ UNCHANGED <<taskVars, fg, provider>>
    /\ coord.startUp[i].pc = "foreground"
    /\ coord' = [coord EXCEPT
           !.startUp[i].pc = AfterPermission(granted, "background"),
           !.startUp[i].denied = ~granted]

\* await Location.requestBackgroundPermissionsAsync()
RequestBackground(i, granted) ==
    /\ UNCHANGED <<taskVars, fg, provider>>
    /\ coord.startUp[i].pc = "background"
    /\ coord' = [coord EXCEPT
           !.startUp[i].pc =
               AfterPermission(granted,
                   IF coord.revision = "useFocusEffect" THEN "position" ELSE "watch"),
           !.startUp[i].denied = ~granted]

\* await Location.getCurrentPositionAsync()  (part_004 lines 472-481)
GetCurrentPosition(i, ok) ==
    /\ UNCHANGED <<taskVars, fg, provider>>
    /\ coord.startUp[i].pc = "position"
    /\ coord' = [coord EXCEPT !.startUp[i].pc = IF ok THEN "watch" ELSE "done"]

\* await Location.watchPositionAsync(...)
WatchPosition(i) ==
    /\ UNCHANGED <<taskVars, fg, provider>>
    /\ coord.startUp[i].pc = "watch"
    /\ coord' = [coord EXCEPT !.startUp[i].pc = "isRegistered",
                              !.startUp[i].watching = TRUE,
                              !.watchers = @ + 1]

\* await TaskManager.isTaskRegisteredAsync(LOCATION_TRACKING_TASK)
IsTaskRegistered(i) ==
    /\ UNCHANGED <<taskVars, fg, provider>>
    /\ coord.startUp[i].pc = "isRegistered"
    /\ LET saw == TaskNameOf(i) \in coord.registered
       IN coord' = [coord EXCEPT
              !.startUp[i].sawRegistered = saw,
              !.startUp[i].pc =
                  IF coord.revision = "useFocusEffect"
                  THEN IF saw THEN "stop" ELSE "start"
                  ELSE IF saw THEN "done" ELSE "start"]

\* await Location.stopLocationUpdatesAsync(LOCATION_TRACKING_TASK), in try/catch
StopUpdates(i, ok) ==
    /\ UNCHANGED <<taskVars, fg, provider>>
    /\ coord.startUp[i].pc = "stop"
    /\ coord' = [coord EXCEPT
           !.startUp[i].pc = "start",
           !.registered = IF ok THEN @ \ {TaskNameOf(i)} ELSE @]

\* await Location.startLocationUpdatesAsync(LOCATION_TRACKING_TASK, ...), in
\* try/catch: the OS registers the task under its name
StartUpdates(i, ok) ==
    /\ UNCHANGED <<taskVars, fg, provider>>
    /\ coord.startUp[i].pc = "start"
    /\ coord' = [coord EXCEPT
           !.startUp[i].pc = "done",
           !.startUp[i].started = ok,
           !.registered = IF ok THEN @ \cup {TaskNameOf(i)} ELSE @]

\* The OS delivers a batch of locations to a registered task whose previous
\* invocation has returned.
Deliver(name) ==
    /\ UNCHANGED <<taskVars, fg, provider>>
    /\ name \in coord.registered
    /\ name \notin coord.inflight
    /\ coord' = [coord EXCEPT !.inflight = @ \cup {name}]

\* The handler's promise settles.
HandlerReturns(name) ==
    /\ UNCHANGED <<taskVars, fg, provider>>
    /\ name \in coord.inflight
    /\ coord' = [coord EXCEPT !.inflight = @ \ {name}]

TaskNames == {TaskNameOf(i) : i \in 1..MaxFocus}

NextCoord ==
    \/ FocusGained
    \/ FocusLost
    \/ \E i \in 1..MaxFocus, granted \in BOOLEAN : RequestForeground(i, granted)
    \/ \E i \in 1..MaxFocus, granted \in BOOLEAN : RequestBackground(i, granted)
    \/ \E i \in 1..MaxFocus, ok \in BOOLEAN : GetCurrentPosition(i, ok)
    \/ \E i \in 1..MaxFocus : WatchPosition(i)
    \/ \E i \in 1..MaxFocus : IsTaskRegistered(i)
    \/ \E i \in 1..MaxFocus, ok \in BOOLEAN : StopUpdates(i, ok)
    \/ \E i \in 1..MaxFocus, ok \in BOOLEAN : StartUpdates(i, ok)
    \/ \E name \in TaskNames : Deliver(name)
    \/ \E name \in TaskNames : HandlerReturns(name)


(***************************************************************************)
(* PointsProvider (PointsContext.js lines 6-41), mounted by the root        *)
(* layout when the app process starts, and the foreground poll of           *)
(* TrafficPage that feeds it (traffic.js lines 358-385).  Only the          *)
(* 'lastPointTime' key is followed.                                         *)
(***************************************************************************)
\* number of times the app process is launched
MaxMounts == 2
\* the task stops being delivered once this many points were credited
MaxCredited == 20

\* No app process yet: only the background task has run.
ProviderInit ==
    [mounted |-> FALSE, mounts |-> 0, lastPointTime |-> 0, loading |-> FALSE,
     queue |-> <<>>, poll |-> "idle", pollItem |-> Absent, landed |-> {}]

\* setLastPointTime(value) and, when the state changed, the save effect
\* (lines 37-41) issuing AsyncStorage.setItem('lastPointTime', ...)
SetLastPointTime(p, value, origin) ==
    IF value = p.lastPointTime THEN p
    ELSE [p EXCEPT !.lastPointTime = value,
                   !.queue = Append(@, [value |-> value, origin |-> origin])]

\* The process is launched: useState(0), and the effects of the first render
\* run, the save effect with the initial 0.  Writes the previous process had
\* not finished are lost with it.
ProviderMount(d) ==
    /\ UNCHANGED <<taskVars, fg, coord>>
    /\ provider.mounts < MaxMounts
    /\ inv[d].pc = "idle"
    /\ provider' = [mounted |-> TRUE, mounts |-> provider.mounts + 1,
                    lastPointTime |-> 0, loading |-> TRUE,
                    queue |-> <<[value |-> 0, origin |-> "mount"]>>,
                    poll |-> "idle", pollItem |-> Absent,
                    landed |-> provider.landed]

\* loadData (lines 12-27): getItem('lastPointTime'), then setLastPointTime
\* when the key exists.
ProviderLoad(d) ==
    /\ UNCHANGED <<taskVars, fg, coord>>
    /\ provider.loading
    /\ LET item == storage[d].lastPointTime
           p == [provider EXCEPT !.loading = FALSE]
       IN provider' = IF item # Absent
                      THEN SetLastPointTime(p, ParseIntOrZero(item), "load")
                      ELSE p

\* A pending AsyncStorage.setItem('lastPointTime', ...) of the provider is
\* carried out.
ProviderSave(d) ==
    /\ UNCHANGED <<clock, account, inv, grantLog, credited, gameAwards,
                   prevRefresh, lastResetAt, pendingRetry, fg, coord>>
    /\ provider.queue # <<>>
    /\ storage' = [storage EXCEPT
           ![d].lastPointTime = NumToString(Head(provider.queue).value)]
    /\ provider' = [provider EXCEPT
           !.queue = Tail(@),
           !.landed = @ \cup {Head(provider.queue).origin}]

\* updateForegroundUI up to its last getItem (traffic.js lines 359-364)
updateForegroundUIRead(d) ==
    /\ UNCHANGED <<taskVars, fg, coord>>
    /\ provider.mounted
    /\ provider.poll = "idle"
    /\ provider' = [provider EXCEPT !.poll = "read",
                                    !.pollItem = storage[d].lastPointTime]

\* if (currentLastPointTime !== null) setLastPointTime(parseInt(...))
\* (traffic.js line 370)
updateForegroundUIApply(d) ==
    /\ UNCHANGED <<taskVars, fg, coord>>
    /\ provider.poll = "read"
    /\ LET p == [provider EXCEPT !.poll = "idle", !.pollItem = Absent]
       IN provider' = IF provider.pollItem # Absent
                      THEN SetLastPointTime(p, ParseIntOrZero(provider.pollItem), "poll")
                      ELSE p

vars == <<taskVars, fg, coord, provider>>

Init == TaskInit /\ fg = FgInit /\ coord = CoordInit /\ provider = ProviderInit

\* One phone and every input.
Next ==
    \/ TaskStart("phoneA", Positions)
    \/ TaskTraffic("phoneA", TrafficResponses)
    \/ TaskRoads("phoneA", RoadResponses)
    \/ TaskGetDoc("phoneA", BOOLEAN)
    \/ TaskUpdateDoc("phoneA", BOOLEAN)
    \/ Tick

Spec == Init /\ [][Next]_vars

\* Writers that share the account: two phones of the same user, each stopped
\* in heavy traffic on a road, and a mini-game.
StoppedInTraffic(d) ==
    \/ TaskStart(d, {0})
    \/ TaskTraffic(d, {TrafficOk(16, 10)})
    \/ TaskRoads(d, {RoadSnap(0)})
    \/ TaskGetDoc(d, {TRUE})
    \/ TaskUpdateDoc(d, {TRUE})

NextShared ==
    \/ \E d \in Devices : StoppedInTraffic(d)
    \/ \E amount \in GameAmounts : updateFirebasePoints(amount)
    \/ Tick

SpecShared == Init /\ [][NextShared]_vars

\* The task of a phone stopped in traffic, until MaxCredited is reached.
TaskWhileStopped(d) ==
    /\ credited < MaxCredited
    /\ StoppedInTraffic(d)

\* The task on a phone whose persisted session fields are, each of them,
\* either absent or corrupt when the first invocation runs.
CorruptStorages ==
    {[EmptyStorage EXCEPT !.lastKnownLocation = ref,
                          !.lastTrafficApiCallTime = traffic,
                          !.lastRoadsApiCallTime = roads,
                          !.lastPointTime = point] :
        ref \in {NoLocation, CorruptLocation},
        traffic \in {Absent, CorruptItem},
        roads \in {Absent, CorruptItem},
        point \in {Absent, CorruptItem}}

InitCorrupt ==
    /\ clock = StartTime
    /\ storage \in [Devices -> CorruptStorages]
    /\ storage["phoneB"] = EmptyStorage
    /\ account = RegisteredAccount
    /\ inv = [d \in Devices |-> IdleInv]
    /\ grantLog = {}
    /\ credited = 0
    /\ gameAwards = 0
    /\ prevRefresh = [d \in Devices |-> NoRefresh]
    /\ lastResetAt = [d \in Devices |-> Absent]
    /\ pendingRetry = [d \in Devices |-> "no"]
    /\ fg = FgInit /\ coord = CoordInit /\ provider = ProviderInit

NextCorrupt ==
    \/ StoppedInTraffic("phoneA")
    \/ Tick

SpecCorrupt == InitCorrupt /\ [][NextCorrupt]_vars

\* The task kept being invoked on a phone that stays put in traffic: the OS
\* delivers at least one fix per tick, every await of the handler resolves,
\* the oracles answer heavy or moderate traffic and a snapped point on the
\* road, and the writes succeed.
MaxLiveTicks == 6
MaxLiveTime == StartTime + MaxLiveTicks * TickMs
StillPositions == {0, 10}
SlowTraffic == {TrafficOk(16, 10), TrafficOk(15, 10)}

\* Date.now() at the next delivery
LiveTick ==
    /\ UNCHANGED <<fg, coord, provider>>
    /\ inv["phoneA"].pc = "idle"
    /\ inv["phoneA"].outcome # "init" /\ inv["phoneA"].now = clock
    /\ clock + TickMs <= MaxLiveTime
    /\ clock' = clock + TickMs
    /\ UNCHANGED <<storage, account, inv, grantLog, credited, gameAwards,
                   prevRefresh, lastResetAt, pendingRetry>>

NextLive ==
    \/ TaskStart("phoneA", StillPositions)
    \/ TaskTraffic("phoneA", SlowTraffic)
    \/ TaskRoads("phoneA", {RoadSnap(0)})
    \/ TaskGetDoc("phoneA", {TRUE})
    \/ TaskUpdateDoc("phoneA", {TRUE})
    \/ LiveTick

\* Every await of the handler resolves and the OS delivers again (weak
\* fairness); time passes however often invocations are in progress (strong
\* fairness, since the model lets the clock move between invocations only).
SpecLive ==
    /\ Init
    /\ [][NextLive]_vars
    /\ WF_vars(TaskStart("phoneA", StillPositions))
    /\ WF_vars(TaskTraffic("phoneA", SlowTraffic))
    /\ WF_vars(TaskRoads("phoneA", {RoadSnap(0)}))
    /\ WF_vars(TaskGetDoc("phoneA", {TRUE}))
    /\ WF_vars(TaskUpdateDoc("phoneA", {TRUE}))
    /\ SF_vars(LiveTick)

\* ensureUserPointsField followed through its awaits (part_004 lines
\* 114-140): the getDoc and the branch it selects, then the write of that
\* branch.  Other writers of the document can fall between the two.
ensureGetDoc(d) ==
    /\ UNCHANGED <<fg, coord, provider>>
    /\ inv[d].pc = "idle"
    /\ inv' = [inv EXCEPT ![d].pc =
           IF ~account.exists THEN "ensureSetDoc"
           ELSE IF account.points = Absent THEN "ensureUpdateDoc"
           ELSE "idle"]
    /\ UNCHANGED <<clock, storage, account, grantLog, credited, gameAwards,
                   prevRefresh, lastResetAt, pendingRetry>>

\* await setDoc(userDocRef, { points: 0, pointHistory: [] })
ensureSetDoc(d) ==
    /\ UNCHANGED <<fg, coord, provider>>
    /\ inv[d].pc = "ensureSetDoc"
    /\ account' = [exists |-> TRUE, points |-> 0, pointHistory |-> <<>>,
                   lastPointTime |-> Absent]
    /\ inv' = [inv EXCEPT ![d].pc = "idle"]
    /\ UNCHANGED <<clock, storage, grantLog, credited, gameAwards,
                   prevRefresh, lastResetAt, pendingRetry>>

\* await updateDoc(userDocRef, { points: 0 })
ensureUpdateDoc(d) ==
    /\ UNCHANGED <<fg, coord, provider>>
    /\ inv[d].pc = "ensureUpdateDoc"
    /\ account' = [account EXCEPT !.points = 0]
    /\ inv' = [inv EXCEPT ![d].pc = "idle"]
    /\ UNCHANGED <<clock, storage, grantLog, credited, gameAwards,
                   prevRefresh, lastResetAt, pendingRetry>>

\* The account initialisation of phoneA's handler next to the other writers
\* of the document: the mini-game and the task of phoneB.
NextEnsure ==
    \/ ensureGetDoc("phoneA")
    \/ ensureSetDoc("phoneA")
    \/ ensureUpdateDoc("phoneA")
    \/ \E amount \in GameAmounts : updateFirebasePoints(amount)
    \/ StoppedInTraffic("phoneB")
    \/ Tick

SpecEnsure == Init /\ [][NextEnsure]_vars

\* Two runs of the task compared step by step: the phones start from
\* AsyncStorage contents that differ in 'backgroundIsStuck' at most, and
\* phoneB repeats each step of phoneA with the same sample, clock and oracle
\* answers.
WithoutCachedStuck(st) == [st EXCEPT !.backgroundIsStuck = AbsentStr]

TwinStorages ==
    {[EmptyStorage EXCEPT !.lastKnownLocation = ref, !.backgroundIsStuck = cached] :
        ref \in {NoLocation, LocationAt(0, 0)},
        cached \in {AbsentStr, "true", "false"}}

InitTwin ==
    /\ clock = StartTime
    /\ storage \in [Devices -> TwinStorages]
    /\ WithoutCachedStuck(storage["phoneA"]) = WithoutCachedStuck(storage["phoneB"])
    /\ account \in {RegisteredAccount, MissingAccount}
    /\ inv = [d \in Devices |-> IdleInv]
    /\ grantLog = {}
    /\ credited = 0
    /\ gameAwards = 0
    /\ prevRefresh = [d \in Devices |-> NoRefresh]
    /\ lastResetAt = [d \in Devices |-> Absent]
    /\ pendingRetry = [d \in Devices |-> "no"]
    /\ fg = FgInit /\ coord = CoordInit /\ provider = ProviderInit

\* phoneA takes a step when the two runs are at the same point.
TwinLeads ==
    /\ inv["phoneA"].pc = inv["phoneB"].pc
    /\ StoppedInTraffic("phoneA")

\* phoneB takes the step phoneA has just taken.
TwinFollows ==
    /\ inv["phoneA"].pc # inv["phoneB"].pc
    /\ StoppedInTraffic("phoneB")

NextTwin ==
    \/ TwinLeads
    \/ TwinFollows
    \/ Tick

SpecTwin == InitTwin /\ [][NextTwin]_vars

\* Date.now() between invocations that come at half the stuck-time threshold.
HalfTick ==
    /\ UNCHANGED <<fg, coord, provider>>
    /\ \A d \in Devices : inv[d].pc = "idle"
    /\ clock + (TickMs \div 2) <= MaxTime
    /\ clock' = clock + (TickMs \div 2)
    /\ UNCHANGED <<storage, account, inv, grantLog, credited, gameAwards,
                   prevRefresh, lastResetAt, pendingRetry>>

\* Samples at the origin, 10 m from it (inside the stuck distance) and 30 m
\* from it.
NearbyPositions == {0, 10, 30}

\* The stuck detector followed closely: one phone in heavy traffic on a road,
\* sampled every half threshold at one of three positions.
NextStuck ==
    \/ TaskStart("phoneA", NearbyPositions)
    \/ TaskTraffic("phoneA", {TrafficOk(16, 10)})
    \/ TaskRoads("phoneA", {RoadSnap(0)})
    \/ TaskGetDoc("phoneA", {TRUE})
    \/ TaskUpdateDoc("phoneA", {TRUE})
    \/ HalfTick

SpecStuck == Init /\ [][NextStuck]_vars

\* The OS delivers a fix to the handler only while the task is registered.
DeliverFix(d) ==
    /\ LOCATION_TRACKING_TASK \in coord.registered
    /\ TaskStart(d, {0})

\* The screen's start-up (which stops and restarts a registered task) next to
\* the invocations of the task on the same phone, stopped in traffic.
NextStop ==
    \/ FocusGained
    \/ FocusLost
    \/ \E i \in 1..MaxFocus : RequestForeground(i, TRUE)
    \/ \E i \in 1..MaxFocus : RequestBackground(i, TRUE)
    \/ \E i \in 1..MaxFocus : GetCurrentPosition(i, TRUE)
    \/ \E i \in 1..MaxFocus : WatchPosition(i)
    \/ \E i \in 1..MaxFocus : IsTaskRegistered(i)
    \/ \E i \in 1..MaxFocus, ok \in BOOLEAN : StopUpdates(i, ok)
    \/ \E i \in 1..MaxFocus, ok \in BOOLEAN : StartUpdates(i, ok)
    \/ DeliverFix("phoneA")
    \/ TaskTraffic("phoneA", {TrafficOk(16, 10)})
    \/ TaskRoads("phoneA", {RoadSnap(0)})
    \/ TaskGetDoc("phoneA", {TRUE})
    \/ TaskUpdateDoc("phoneA", {TRUE})
    \/ Tick

SpecStop == Init /\ [][NextStop]_vars

\* The app on one phone: the task while stopped in traffic, the provider and
\* the poll.
NextApp ==
    \/ TaskWhileStopped("phoneA")
    \/ ProviderMount("phoneA")
    \/ ProviderLoad("phoneA")
    \/ ProviderSave("phoneA")
    \/ updateForegroundUIRead("phoneA")
    \/ updateForegroundUIApply("phoneA")
    \/ Tick

SpecApp == Init /\ [][NextApp]_vars

\* The accelerometer TrafficPage alone on one phone.
NextFg ==
    \/ FgLoad
    \/ \E still \in BOOLEAN : AccelerometerListener(still)
    \/ \E r \in FgTrafficResponses : fetchTrafficStatus(r)
    \/ \E r \in RoadResponses : checkIfOnRoad(r)
    \/ AwardInterval
    \/ \E ok \in BOOLEAN : FgGetDoc(ok)
    \/ \E ok \in BOOLEAN : FgUpdatePoints(ok)
    \/ \E ok \in BOOLEAN : FgHistorySetItem(ok)
    \/ \E ok \in BOOLEAN : FgHistoryArrayUnion(ok)
    \/ FgTick

SpecFg == Init /\ [][NextFg]_vars

\* The start-up of the background task and its deliveries.
SpecCoord == Init /\ [][NextCoord]_vars

(***************************************************************************)
(* Properties.                                                             *)
(***************************************************************************)
\* The invocation of d has made its award decision (it is past the oracles).
Decided(d) == inv[d].outcome # "init" /\ inv[d].pc \notin {"traffic", "roads"}

\* The invocation of d went on to the remote write of a grant.
Attempted(d) ==
    \/ inv[d].pc \in {"getDoc", "updateDoc"}
    \/ inv[d].outcome \in {"granted", "failed"}

\* C1: any two grants recorded on the account have decision times at least
\* COOLDOWN_INTERVAL_MS apart, whichever device made them.
C1_OneGrantPerWindow ==
    \A g1 \in grantLog, g2 \in grantLog :
        g1 # g2 => Abs(g1.now - g2.now) >= COOLDOWN_INTERVAL_MS

\* C2: an invocation whose award step finds now - lastPointTime below the
\* cooldown interval returns without attempting the account write.
C2_NoAwardBelowCooldown ==
    \A d \in Devices :
        (Decided(d) /\ inv[d].now - inv[d].lastPointTime < COOLDOWN_INTERVAL_MS)
            => ~Attempted(d)

\* C2 witness: stuck on a road in heavy traffic, below cooldown, declined.
C2_Witness ==
    \E d \in Devices :
        /\ inv[d].pc = "idle" /\ inv[d].outcome = "declined"
        /\ inv[d].isStuckInBackground /\ inv[d].isOnRoad
        /\ inRedZone(inv[d].trafficStatus)
        /\ inv[d].now - inv[d].lastPointTime < COOLDOWN_INTERVAL_MS
        /\ grantLog # {}

\* C3: an invocation whose on-road flag is false does not attempt the account
\* write, and a write is only attempted on a flag that came from a snapped
\* point or from the cache, never from a failed or empty road-snap answer.
C3_NoAwardOffRoad ==
    \A d \in Devices :
        /\ (Decided(d) /\ ~inv[d].isOnRoad) => ~Attempted(d)
        /\ inv[d].pc \in {"getDoc", "updateDoc"}
               => inv[d].roadsResult \in {"snap", "cached"}

\* C3 witness: stuck, heavy traffic, cooldown elapsed, off road, declined.
C3_Witness ==
    \E d \in Devices :
        /\ inv[d].pc = "idle" /\ inv[d].outcome = "declined"
        /\ inv[d].isStuckInBackground /\ inv[d].cooldownReady
        /\ inRedZone(inv[d].trafficStatus)
        /\ ~inv[d].isOnRoad

\* C4: with stuck, onRoad and cooldownReady, the amount is 10 for heavy
\* traffic, 5 for moderate traffic, and for every other classification the
\* invocation does not attempt the account write; every grant is 5 or 10.
C4_AmountBySeverity ==
    /\ \A d \in Devices :
        (Decided(d) /\ inv[d].isStuckInBackground /\ inv[d].isOnRoad
                    /\ inv[d].cooldownReady)
            => /\ inRedZone(inv[d].trafficStatus)
                    => (Attempted(d) /\ inv[d].pointsToAdd = 10)
               /\ inYellowZone(inv[d].trafficStatus)
                    => (Attempted(d) /\ inv[d].pointsToAdd = 5)
               /\ (~inRedZone(inv[d].trafficStatus) /\ ~inYellowZone(inv[d].trafficStatus))
                    => ~Attempted(d)
    /\ \A g \in grantLog : g.amount \in {5, 10}

\* C4 witness: a heavy-traffic grant of 10 points reached the account.
C4_Witness ==
    \E d \in Devices :
        /\ inv[d].outcome = "granted"
        /\ inRedZone(inv[d].trafficStatus)
        /\ inv[d].pointsToAdd = 10
        /\ LatestPoints(account) = 10

\* C5: once every writer has returned, the balance is the sum of all the
\* amounts awarded (no update is lost).
C5_NoLostUpdate ==
    (\A d \in Devices : inv[d].pc = "idle") => LatestPoints(account) = credited

\* C7: after a failed grant write the AsyncStorage anchor is the one the
\* invocation read, and no later invocation that is stuck, on road and in
\* heavy or moderate traffic declines before the grant was attempted again.
C7_FailedWriteKeepsAnchor ==
    \A d \in Devices :
        /\ inv[d].outcome = "failed"
               => ParseIntOrZero(storage[d].lastPointTime) = inv[d].lastPointTime
        /\ (pendingRetry[d] = "failed" /\ inv[d].outcome = "declined")
               => ~(/\ inv[d].isStuckInBackground
                    /\ inv[d].isOnRoad
                    /\ pointsToAdd(inv[d].trafficStatus) > 0)

\* C7 witness: the grant is attempted again after a failed write.
C7_Witness ==
    \E d \in Devices :
        /\ pendingRetry[d] = "retrying"
        /\ inv[d].pc = "getDoc"
        /\ storage[d].lastPointTime = Absent

\* C8: a STUCK verdict comes no earlier than STUCK_TIME_THRESHOLD_MS after
\* the last movement reset of the reference.
C8_StuckReset ==
    \A d \in Devices :
        (inv[d].isStuckInBackground /\ lastResetAt[d] # Absent)
            => inv[d].now >= lastResetAt[d] + STUCK_TIME_THRESHOLD_MS

\* C8 witness: STUCK again, exactly one threshold after a reset.
C8_Witness ==
    \E d \in Devices :
        /\ inv[d].isStuckInBackground
        /\ lastResetAt[d] # Absent
        /\ inv[d].now = lastResetAt[d] + STUCK_TIME_THRESHOLD_MS
        /\ storage[d].lastKnownLocation.timestamp = lastResetAt[d]

\* The traffic refresh of d's invocation is done and the one before it was
\* less than the throttle interval earlier.
WithinThrottleOfPrevious(d) ==
    /\ inv[d].pc = "roads"
    /\ prevRefresh[d].valid
    /\ inv[d].now - prevRefresh[d].now < MIN_API_CALL_INTERVAL_MS_TRAFFIC

CallsOf(called) == IF called THEN 1 ELSE 0

TrafficEntriesOf(acct) ==
    Cardinality({i \in 1..Len(acct.pointHistory) : acct.pointHistory[i].reason # "game"})

\* C6: whenever no award is in flight, the document holds exactly one traffic
\* history entry for each traffic grant that increased its points.
C6_PointsMatchHistory ==
    (fg.pc = "idle" /\ \A d \in Devices : inv[d].pc = "idle")
        => TrafficEntriesOf(account) = Cardinality(grantLog)

C11_AnchorSurvivesRestart ==
    \A g \in grantLog :
        g.dev = "phoneA" => ParseIntOrZero(storage["phoneA"].lastPointTime) >= g.now

\* C12: a grant is attempted only when the cooldown has elapsed since the
\* lastPointTime of the user's document.
C12_RemoteAnchorDecides ==
    \A d \in Devices :
        (inv[d].pc \in {"getDoc", "updateDoc"} /\ account.lastPointTime # Absent)
            => inv[d].now - account.lastPointTime >= COOLDOWN_INTERVAL_MS

\* C18: no AsyncStorage write of 'lastPointTime' that a foreground poll set
\* off is ever carried out.
C18_ForegroundReadOnly == "poll" \notin provider.landed

\* C13: a fix whose own timestamp is not later than the stored reference's
\* timestamp leaves 'lastKnownLocation' as it was, whatever the distance.
C13_StaleFixIsNoOp ==
    [][\A d \in Devices :
          (/\ inv[d].pc = "idle" /\ inv'[d].pc = "traffic"
           /\ storage[d].lastKnownLocation.set
           /\ inv'[d].fixTime <= storage[d].lastKnownLocation.timestamp)
              => storage'[d].lastKnownLocation = storage[d].lastKnownLocation]_vars

\* C20: an invocation that found no stored reference has stored its own
\* sample with timestamp now, has the verdict MOVING and attempts no grant.
C20_FirstFixOnlyStores ==
    \A d \in Devices :
        inv[d].firstRun =>
            /\ storage[d].lastKnownLocation.set
            /\ storage[d].lastKnownLocation.timestamp = inv[d].now
            /\ inv[d].pc \in {"traffic", "roads"}
                   => storage[d].lastKnownLocation.pos = inv[d].pos
            /\ ~inv[d].isStuckInBackground
            /\ ~Attempted(d)
            /\ inv[d].pc \in {"traffic", "roads", "idle"}
            /\ inv[d].pc = "idle" => inv[d].outcome = "declined"

\* A first invocation declined in heavy traffic, on a road, with the cooldown
\* elapsed.
C20_Witness ==
    \E d \in Devices :
        /\ inv[d].firstRun
        /\ inv[d].pc = "idle" /\ inv[d].outcome = "declined"
        /\ inRedZone(inv[d].trafficStatus)
        /\ inv[d].isOnRoad /\ inv[d].cooldownReady
        /\ storage[d].lastKnownLocation = LocationAt(30, inv[d].now)

\* C14: when the traffic-oracle call of an invocation failed, the severity
\* the invocation uses is the cached one and the cache write leaves
\* 'backgroundTrafficStatus' as it was.
C14_FailureKeepsCache ==
    [][\A d \in Devices :
          (/\ inv[d].pc = "roads" /\ inv'[d].pc # "roads"
           /\ inv[d].calledTraffic /\ ~inv[d].completedTraffic)
              => /\ inv[d].trafficStatus =
                        CachedTrafficStatus(storage[d].backgroundTrafficStatus)
                 /\ storage'[d].backgroundTrafficStatus =
                        storage[d].backgroundTrafficStatus]_vars

\* C15: once the sampler has been stopped while an invocation is in flight,
\* that invocation writes neither the phone's AsyncStorage nor the account.
C15_NoWriteAfterStop ==
    [][(/\ LOCATION_TRACKING_TASK \notin coord.registered
        /\ inv["phoneA"].pc # "idle")
           => /\ storage'["phoneA"] = storage["phoneA"]
              /\ account' = account]_vars

\* C16: no foreground watch subscription is live while the screen is not
\* focused, and never more than one is live.
C16_WatchRemovedOnBlur ==
    /\ ~coord.focused => coord.watchers = 0
    /\ coord.watchers <= 1

\* C19: a start-up that was refused a permission has returned without a
\* foreground watch and without starting the background task, and stays
\* returned; while every start-up so far was refused, no watch is live and no
\* task is registered.
C19_DeniedStartsNothing ==
    /\ \A i \in 1..MaxFocus :
           coord.startUp[i].denied =>
               /\ coord.startUp[i].pc = "done"
               /\ ~coord.startUp[i].watching
               /\ ~coord.startUp[i].started
    /\ (\A i \in 1..coord.begun : coord.startUp[i].denied)
           => coord.watchers = 0 /\ coord.registered = {}

\* Both start-ups were refused, and the screen is focused.
C19_Witness ==
    /\ coord.begun = MaxFocus
    /\ coord.focused
    /\ \A i \in 1..MaxFocus : coord.startUp[i].denied /\ coord.startUp[i].pc = "done"
    /\ coord.watchers = 0 /\ coord.registered = {}

\* C17: with a persisted field corrupt, no invocation throws, the award step
\* finds the cooldown as it would with 'lastPointTime' absent, and the
\* traffic oracle is called as it would be with its call time absent.
C17_CorruptTreatedAsAbsent ==
    \A d \in Devices :
        /\ inv[d].outcome # "threw"
        /\ (Decided(d) /\ storage[d].lastPointTime = CorruptItem)
               => inv[d].cooldownReady = cooldownReady(inv[d].now, 0)
        /\ (inv[d].pc = "roads" /\ storage[d].lastTrafficApiCallTime = CorruptItem)
               => inv[d].calledTraffic = canCallTrafficApi(inv[d].now, 0)

\* The step in which d's invocation takes its sample and runs the stuck
\* detection.
StuckDetectionStep(d) == inv[d].pc = "idle" /\ inv'[d].pc = "traffic"

\* C21: a sample at least STUCK_DISTANCE_THRESHOLD_METERS from the stored
\* reference replaces the reference by the sample stamped now and gives the
\* verdict MOVING, whatever the elapsed time and the previous verdict.
C21_MovementAlwaysResets ==
    [][\A d \in Devices :
          (/\ StuckDetectionStep(d)
           /\ storage[d].lastKnownLocation.set
           /\ getDistanceFromLatLonInMeters(storage[d].lastKnownLocation.pos,
                                            inv'[d].pos)
                  >= STUCK_DISTANCE_THRESHOLD_METERS)
              => /\ storage'[d].lastKnownLocation =
                        LocationAt(inv'[d].pos, inv'[d].now)
                 /\ ~inv'[d].isStuckInBackground]_vars

\* A sample exactly 30 m from a reference older than the stuck-time
\* threshold has reset the reference, the previous verdict being STUCK.
C21_Witness ==
    \E d \in Devices :
        /\ inv[d].pc = "traffic" /\ ~inv[d].firstRun
        /\ storage[d].backgroundIsStuck = "true"
        /\ lastResetAt[d] = inv[d].now
        /\ storage[d].lastKnownLocation = LocationAt(inv[d].pos, inv[d].now)
        /\ ~inv[d].isStuckInBackground

\* C22: the verdict of an invocation is STUCK exactly when a reference
\* exists, the sample is less than 30 m from it and at least 60000 ms have
\* passed since the reference's timestamp.
C22_StuckIff ==
    [][\A d \in Devices :
          StuckDetectionStep(d) =>
              (inv'[d].isStuckInBackground <=>
                  /\ storage[d].lastKnownLocation.set
                  /\ Abs(inv'[d].pos - storage[d].lastKnownLocation.pos) < 30
                  /\ inv'[d].now - storage[d].lastKnownLocation.timestamp >= 60000)]_vars

\* A STUCK verdict exactly STUCK_TIME_THRESHOLD_MS after the reference was
\* stored.
C22_Witness ==
    \E d \in Devices :
        /\ inv[d].pc = "traffic"
        /\ inv[d].isStuckInBackground
        /\ storage[d].lastKnownLocation.pos = inv[d].pos
        /\ inv[d].now - storage[d].lastKnownLocation.timestamp = STUCK_TIME_THRESHOLD_MS

\* C23: 'lastKnownLocation' changes only in the stuck detection of an
\* invocation that found no reference or a sample at least 30 m from it; a
\* stationary invocation leaves position and timestamp as they were.
C23_StationaryKeepsReference ==
    [][\A d \in Devices :
          storage'[d].lastKnownLocation # storage[d].lastKnownLocation =>
              /\ StuckDetectionStep(d)
              /\ \/ ~storage[d].lastKnownLocation.set
                 \/ getDistanceFromLatLonInMeters(storage[d].lastKnownLocation.pos,
                                                  inv'[d].pos)
                        >= STUCK_DISTANCE_THRESHOLD_METERS]_vars

\* A sample 10 m from the reference, half a threshold after it was stored,
\* has the verdict MOVING and the reference is as it was.
C23_Witness ==
    \E d \in Devices :
        /\ inv[d].pc = "traffic" /\ ~inv[d].firstRun
        /\ ~inv[d].isStuckInBackground
        /\ storage[d].lastKnownLocation.set
        /\ Abs(storage[d].lastKnownLocation.pos - inv[d].pos) = 10
        /\ inv[d].now - storage[d].lastKnownLocation.timestamp = TickMs \div 2

\* The step in which d's invocation goes through the traffic block.
TrafficBlockStep(d) == inv[d].pc = "traffic" /\ inv'[d].pc = "roads"

\* C24: a traffic-oracle call that throws gives the severity 'Error' and
\* leaves 'lastTrafficApiCallTime' as it was, so that the throttle still
\* admits a call; a call that completes stores now, whatever it classified.
C24_ThrottleTimestampDiscipline ==
    [][\A d \in Devices :
          TrafficBlockStep(d) =>
              /\ (inv'[d].calledTraffic /\ ~inv'[d].completedTraffic)
                     => /\ inv'[d].trafficStatus = "Error"
                        /\ storage'[d].lastTrafficApiCallTime =
                               storage[d].lastTrafficApiCallTime
                        /\ canCallTrafficApi(inv[d].now,
                               ParseIntOrZero(storage'[d].lastTrafficApiCallTime))
              /\ inv'[d].completedTraffic
                     => /\ storage'[d].lastTrafficApiCallTime = inv[d].now
                        /\ inv'[d].trafficStatus # "Error"]_vars

\* A call that throws after an earlier call completed: the stored call time
\* is still the earlier one.
C24_Witness ==
    \E d \in Devices :
        /\ inv[d].pc = "roads"
        /\ inv[d].calledTraffic /\ ~inv[d].completedTraffic
        /\ inv[d].trafficStatus = "Error"
        /\ storage[d].lastTrafficApiCallTime # Absent
        /\ storage[d].lastTrafficApiCallTime < inv[d].now

\* C25: while no invocation is in progress on the single phone, the local
\* 'lastPointTime' equals the document's lastPointTime (0 when not yet
\* written), and after a granting invocation both equal its decision time.
C25_AnchorsConverge ==
    inv["phoneA"].pc = "idle" =>
        /\ ParseIntOrZero(storage["phoneA"].lastPointTime)
               = ParseIntOrZero(account.lastPointTime)
        /\ inv["phoneA"].outcome = "granted"
               => account.lastPointTime = inv["phoneA"].now

\* What the award decision of an invocation consists of.
DecisionOf(i) == [i EXCEPT !.fixTime = 0, !.guarded = FALSE]

\* C26: of two runs that start from AsyncStorage contents differing only in
\* 'backgroundIsStuck' and get the same sample, clock and oracle answers, the
\* second makes at every step the decision of the first, has the same
\* AsyncStorage apart from that key (and the same with it once the
\* invocation is over), and leaves the account as the first run left it.
C26_CachedStuckNotTrusted ==
    [][inv'["phoneB"].pc # inv["phoneB"].pc =>
          /\ DecisionOf(inv'["phoneB"]) = DecisionOf(inv'["phoneA"])
          /\ WithoutCachedStuck(storage'["phoneB"])
                 = WithoutCachedStuck(storage'["phoneA"])
          /\ inv'["phoneB"].pc = "idle" => storage'["phoneB"] = storage'["phoneA"]
          /\ account' = account]_vars

\* Both runs have recomputed the verdict MOVING and are about to decide;
\* phoneB's cache says stuck, phoneA's says not.
C26_Witness ==
    /\ inv["phoneA"].pc = "roads" /\ inv["phoneB"].pc = "roads"
    /\ storage["phoneA"].backgroundIsStuck = "false"
    /\ storage["phoneB"].backgroundIsStuck = "true"
    /\ ~inv["phoneB"].isStuckInBackground
    /\ inRedZone(inv["phoneB"].trafficStatus)

\* C27: the write of ensureUserPointsField never changes the points of a
\* document that has a points field, and it creates a missing document with
\* points 0 and an empty history.
C27_EnsureNeverResets ==
    [][\A d \in Devices :
          (inv[d].pc \in {"ensureSetDoc", "ensureUpdateDoc"} /\ inv'[d].pc = "idle")
              => /\ (account.exists /\ account.points # Absent)
                        => account'.points = account.points
                 /\ ~account.exists
                        => account'.points = 0 /\ account'.pointHistory = <<>>]_vars

\* C28: a delivery with an error, without data or without an authenticated
\* user changes no AsyncStorage key and not the account, and the invocation
\* is over without an oracle call.
C28_GuardedInvocationChangesNothing ==
    [][\A d \in Devices :
          (inv'[d].guarded /\ inv'[d] # inv[d])
              => /\ storage' = storage
                 /\ account' = account
                 /\ inv'[d] = [inv[d] EXCEPT !.guarded = TRUE]
                 /\ inv'[d].pc = "idle"]_vars

\* A guarded delivery after an invocation that granted: the reference, the
\* call times and the balance are in place.
C28_Witness ==
    \E d \in Devices :
        /\ inv[d].guarded /\ inv[d].pc = "idle"
        /\ inv[d].outcome = "granted"
        /\ storage[d].lastKnownLocation.set
        /\ storage[d].lastTrafficApiCallTime # Absent
        /\ storage[d].lastPointTime = inv[d].now
        /\ account.points > 0

\* The phone has been granted points at decision time t.
GrantedAt(t) == \E g \in grantLog : g.dev = "phoneA" /\ g.now = t

\* Deliveries, one tick apart, until a cooldown has elapsed.
CooldownTicks == (COOLDOWN_INTERVAL_MS + TickMs - 1) \div TickMs

\* The phone has been granted points at decision time t or later.
GrantedSince(t) == \E g \in grantLog : g.dev = "phoneA" /\ g.now >= t

\* C29: on a phone that stays put in slow traffic on a road and keeps being
\* sampled, a grant eventually occurs, and every grant is followed by
\* another one at or after the end of its cooldown (as far as the clock of
\* the model reaches).
C29_EventualGrant ==
    /\ <>GrantedSince(0)
    /\ \A t \in {StartTime + k * TickMs : k \in 0..(MaxLiveTicks - CooldownTicks)} :
           [](GrantedAt(t) => <>GrantedSince(t + COOLDOWN_INTERVAL_MS))

\* Two grants exactly one cooldown apart, the later one just made.
C29_Witness ==
    \E g1 \in grantLog, g2 \in grantLog :
        /\ g2.now = g1.now + COOLDOWN_INTERVAL_MS
        /\ inv["phoneA"].outcome = "granted" /\ inv["phoneA"].now = g2.now

\* C30: an invocation that goes on to write a grant has a reference that it
\* did not create or reset, less than 30 m from its sample and at least
\* STUCK_TIME_THRESHOLD_MS old; no grant is decided less than that time
\* after an earlier reset.
C30_GrantNeedsStationaryPeriod ==
    /\ \A d \in Devices :
           inv[d].pc \in {"getDoc", "updateDoc"} =>
               /\ storage[d].lastKnownLocation.set
               /\ ~inv[d].firstRun
               /\ lastResetAt[d] # inv[d].now
               /\ getDistanceFromLatLonInMeters(storage[d].lastKnownLocation.pos,
                                                inv[d].pos)
                      < STUCK_DISTANCE_THRESHOLD_METERS
               /\ inv[d].now - storage[d].lastKnownLocation.timestamp
                      >= STUCK_TIME_THRESHOLD_MS
    /\ \A g \in grantLog :
           (lastResetAt[g.dev] # Absent /\ lastResetAt[g.dev] < g.now)
               => g.now - lastResetAt[g.dev] >= STUCK_TIME_THRESHOLD_MS

\* A grant about to be written for a sample 10 m from a reference that was
\* reset exactly STUCK_TIME_THRESHOLD_MS earlier.
C30_Witness ==
    \E d \in Devices :
        /\ inv[d].pc = "updateDoc"
        /\ Abs(storage[d].lastKnownLocation.pos - inv[d].pos) = 10
        /\ lastResetAt[d] = storage[d].lastKnownLocation.timestamp
        /\ inv[d].now - lastResetAt[d] = STUCK_TIME_THRESHOLD_MS

====
